---- MODULE Spec2Model ----
(***************************************************************************)
(* Client-side session state machine of the multiplayer chess front end    *)
(* (src/app/page.tsx, component ChessGame).                                *)
(*                                                                         *)
(* The React state of the component is the record St; every socket handler *)
(* and every user handler is an operator from that record (and the event   *)
(* payload) to the next record, and an action applies one handler.         *)
(* The rules engine (chess.js) and the board widget (chessboardjsx) are    *)
(* external: the engine is a table over three squares that answers         *)
(* chess.get and chess.moves, the widget starts a drag only where          *)
(* allowDrag permits and reports the drop through onDrop.                  *)
(* The state after construction has no socket yet; Mount is the first run  *)
(* of the socket effect.                                                   *)
(***************************************************************************)
EXTENDS Naturals, Sequences, FiniteSets

VARIABLES
    socket,             \* useState<Socket|null>: "null" before the effect ran, "set" after
    isConnected,        \* useState(false)
    playerColor,        \* useState<'white'|'black'|null>
    effectColor,        \* playerColor captured by the socket effect's closure (deps [chess, playerColor])
    chess,              \* position held by the Chess() instance
    fen,                \* useState(chess.fen()): the position the board shows
    gameState,          \* useState<GameState>: currentTurn, playerCount, gameStarted
                        \* (its fen field is written and never read: the position
                        \* shown and queried is fen / chess)
    gameStatus,         \* useState<string>
    error,              \* useState<string>
    gameOver,           \* useState(false)
    selectedSquare,     \* useState<string|null>
    highlightedSquares, \* useState<{[square]: style}>: the squares that carry a style
    emitted,            \* messages handed to socket.emit by the last step
    outstanding         \* make-move messages emitted and not yet resolved by
                        \* move-made, move-error or a disconnect

vars == <<socket, isConnected, playerColor, effectColor, chess, fen, gameState,
          gameStatus, error, gameOver, selectedSquare, highlightedSquares,
          emitted, outstanding>>

----------------------------------------------------------------------------
(* Bounds and domains *)

MaxOutstanding == 2

MaxPlayers == 2

Colors == {"white", "black"}

Squares == {"a1", "a4", "a8"}

Boards == {"start", "mid"}

Fens == [board : Boards, turn : Colors]

MoveErrors == {"Invalid move"}

GameOverReasons == {"resignation"}

----------------------------------------------------------------------------
(* Rules engine: chess.get, chess.moves, chess.reset *)

\* new Chess().fen(): the starting position, white to move
InitialFen == [board |-> "start", turn |-> "white"]

\* chess.get(square)?.color: 'w', 'b' or undefined
PieceColor(f, sq) ==
    IF f.board = "start"
    THEN (CASE sq = "a1" -> "w" [] sq = "a8" -> "b" [] OTHER -> "none")
    ELSE (CASE sq = "a1" -> "w" [] sq = "a4" -> "w" [] sq = "a8" -> "b" [] OTHER -> "none")

\* destinations of the piece on sq, whoever is to move
Reach(f, sq) ==
    IF f.board = "start"
    THEN (CASE sq = "a1" -> {"a4"} [] sq = "a8" -> {"a4"} [] OTHER -> {})
    ELSE (CASE sq = "a4" -> {"a8"} [] sq = "a8" -> {"a4"} [] OTHER -> {})

ColorChar(c) == IF c = "white" THEN "w" ELSE "b"

\* chess.moves({square, verbose:true}).map(m => m.to): moves exist only for the
\* side the position says is to move
Moves(f, sq) ==
    IF PieceColor(f, sq) = ColorChar(f.turn) THEN Reach(f, sq) ELSE {}

----------------------------------------------------------------------------
(* React state as one record *)

St == [socket |-> socket, isConnected |-> isConnected, playerColor |-> playerColor,
       chess |-> chess, fen |-> fen, gameState |-> gameState,
       gameStatus |-> gameStatus, error |-> error, gameOver |-> gameOver,
       selectedSquare |-> selectedSquare,
       highlightedSquares |-> highlightedSquares]

SetSt(s) ==
    /\ socket' = s.socket
    /\ isConnected' = s.isConnected
    /\ playerColor' = s.playerColor
    /\ chess' = s.chess
    /\ fen' = s.fen
    /\ gameState' = s.gameState
    /\ gameStatus' = s.gameStatus
    /\ error' = s.error
    /\ gameOver' = s.gameOver
    /\ selectedSquare' = s.selectedSquare
    /\ highlightedSquares' = s.highlightedSquares

\* `You are ${color}. Waiting for opponent...`
WaitingStatus(c) ==
    CASE c = "white" -> "You are white. Waiting for opponent..."
      [] c = "black" -> "You are black. Waiting for opponent..."
      [] OTHER -> "You are null. Waiting for opponent..."

----------------------------------------------------------------------------
(* Payloads of the inbound events. The coordinator is authoritative: the  *)
(* side to move it reports is the one of the position it reports, and its *)
(* terminal flags are those of the rules engine: a game is over exactly   *)
(* when it is a checkmate or a draw, and a checkmate is a check.          *)

GameStates ==
    {g \in [fen : Fens, currentTurn : Colors, playerCount : 1..MaxPlayers,
            gameStarted : BOOLEAN] :
        /\ g.currentTurn = g.fen.turn
        /\ g.gameStarted => g.playerCount = MaxPlayers}

AssignDatas == [color : Colors, gameState : GameStates]

StartDatas == [fen : Fens]

CountDatas == [playerCount : 1..MaxPlayers, gameStarted : BOOLEAN]

MoveDatas ==
    {d \in [fen : Fens, currentTurn : Colors, gameOver : BOOLEAN,
            inCheck : BOOLEAN, isCheckmate : BOOLEAN, isDraw : BOOLEAN] :
        /\ d.currentTurn = d.fen.turn
        /\ d.isCheckmate => d.inCheck
        /\ ~(d.isCheckmate /\ d.isDraw)
        /\ d.gameOver <=> (d.isCheckmate \/ d.isDraw)}

OverDatas == [result : {"draw", "white", "black"}, reason : GameOverReasons]

----------------------------------------------------------------------------
(* Socket handlers *)

\* mutant: the connect handler forgets to join
onConnect_NoJoin(s) ==
    [st |-> [s EXCEPT !.isConnected = TRUE, !.error = ""],
     out |-> <<>>]

\* newSocket.on('connect')
onConnect(s) ==
    [st |-> [s EXCEPT !.isConnected = TRUE, !.error = ""],
     out |-> <<[type |-> "join-game"]>>]

\* newSocket.on('disconnect')
onDisconnect(s) ==
    [s EXCEPT !.isConnected = FALSE, !.gameStatus = "Disconnected from server"]

\* newSocket.on('player-assigned')
onPlayerAssigned(s, data) ==
    [s EXCEPT !.playerColor = data.color,
              !.gameState = [currentTurn |-> data.gameState.currentTurn,
                             playerCount |-> data.gameState.playerCount,
                             gameStarted |-> data.gameState.gameStarted],
              !.chess = data.gameState.fen,
              !.fen = data.gameState.fen,
              !.gameStatus = IF data.gameState.gameStarted
                             THEN "Game in progress"
                             ELSE WaitingStatus(data.color)]

\* newSocket.on('game-start')
onGameStart(s, data) ==
    [s EXCEPT !.gameState.gameStarted = TRUE,
              !.gameStatus = "Game started! Good luck!",
              !.chess = data.fen,
              !.fen = data.fen]

\* newSocket.on('player-count-update'); color is the closure's playerColor
onPlayerCountUpdate(s, data, color) ==
    [s EXCEPT !.gameState.playerCount = data.playerCount,
              !.gameState.gameStarted = data.gameStarted,
              !.gameStatus = IF ~data.gameStarted /\ data.playerCount = 1
                             THEN WaitingStatus(color)
                             ELSE s.gameStatus]

\* mutant: the check branch is missing
moveMadeStatus_NoCheck(data, current) ==
    IF data.gameOver
    THEN (IF data.isCheckmate
          THEN (IF data.currentTurn = "white"
                THEN "Checkmate! Black wins!"
                ELSE "Checkmate! White wins!")
          ELSE IF data.isDraw
               THEN "Game ended in a draw"
               ELSE current)
    ELSE (IF data.currentTurn = "white"
          THEN "White's turn"
          ELSE "Black's turn")

\* the status line move-made sets; current is kept where no branch assigns
moveMadeStatus(data, current) ==
    IF data.gameOver
    THEN (IF data.isCheckmate
          THEN (IF data.currentTurn = "white"
                THEN "Checkmate! Black wins!"
                ELSE "Checkmate! White wins!")
          ELSE IF data.isDraw
               THEN "Game ended in a draw"
               ELSE current)
    ELSE IF data.inCheck
         THEN (IF data.currentTurn = "white"
               THEN "White is in check!"
               ELSE "Black is in check!")
         ELSE (IF data.currentTurn = "white"
               THEN "White's turn"
               ELSE "Black's turn")

\* mutant: the turn is advanced locally instead of adopted from the payload
onMoveMade_LocalTurn(s, data) ==
    [s EXCEPT !.chess = data.fen,
              !.fen = data.fen,
              !.gameState.currentTurn =
                  IF s.gameState.currentTurn = "white" THEN "black" ELSE "white",
              !.gameOver = IF data.gameOver THEN TRUE ELSE s.gameOver,
              !.gameStatus = moveMadeStatus(data, s.gameStatus)]

\* newSocket.on('move-made')
onMoveMade(s, data) ==
    [s EXCEPT !.chess = data.fen,
              !.fen = data.fen,
              !.gameState.currentTurn = data.currentTurn,
              !.gameOver = IF data.gameOver THEN TRUE ELSE s.gameOver,
              !.gameStatus = moveMadeStatus(data, s.gameStatus)]

\* newSocket.on('game-over')
onGameOver(s, data) ==
    [s EXCEPT !.gameOver = TRUE,
              !.gameStatus = IF data.result = "draw"
                             THEN "Game ended in a draw"
                             ELSE IF data.result = "white"
                                  THEN "White wins by resignation!"
                                  ELSE "Black wins by resignation!"]

\* newSocket.on('game-full')
onGameFull(s) ==
    [s EXCEPT !.error = "Game is full. Only 2 players allowed."]

\* mutant: the rejection is swallowed
onMoveError_Swallow(s, errorMsg) == s

\* newSocket.on('move-error')
onMoveError(s, errorMsg) ==
    [s EXCEPT !.error = errorMsg]

\* mutant: the over flag survives the opponent's leaving
onPlayerDisconnected_KeepOver(s, data) ==
    [s EXCEPT !.gameState.playerCount = data.playerCount,
              !.gameState.gameStarted = data.gameStarted,
              !.gameStatus = "Opponent disconnected. Waiting for new player..."]

\* newSocket.on('player-disconnected')
onPlayerDisconnected(s, data) ==
    [s EXCEPT !.gameState.playerCount = data.playerCount,
              !.gameState.gameStarted = data.gameStarted,
              !.gameStatus = "Opponent disconnected. Waiting for new player...",
              !.gameOver = FALSE]

\* mutant: the reset forgets to clear the over flag
onGameReset_KeepOver(s) ==
    [s EXCEPT !.chess = InitialFen,
              !.fen = InitialFen,
              !.gameState = [currentTurn |-> "white", playerCount |-> 0,
                             gameStarted |-> FALSE],
              !.gameStatus = "Game reset. Waiting for players...",
              !.error = ""]

\* newSocket.on('game-reset')
onGameReset(s) ==
    [s EXCEPT !.chess = InitialFen,
              !.fen = InitialFen,
              !.gameState = [currentTurn |-> "white", playerCount |-> 0,
                             gameStarted |-> FALSE],
              !.gameStatus = "Game reset. Waiting for players...",
              !.gameOver = FALSE,
              !.error = ""]

----------------------------------------------------------------------------
(* User handlers *)

\* mutant: the guard does not look at the over flag
handleMoveGuard_NoOver(s) ==
    ~(s.socket = "null" \/ s.playerColor = "null"
      \/ s.gameState.currentTurn # s.playerColor)

\* the condition under which handleMove goes on to emit
handleMoveGuard(s) ==
    ~(s.socket = "null" \/ s.playerColor = "null"
      \/ s.gameState.currentTurn # s.playerColor \/ s.gameOver)

\* mutant: a surfaced error is left standing
handleMove_KeepError(s, sourceSquare, targetSquare) ==
    IF ~handleMoveGuard(s)
    THEN [st |-> s, out |-> <<>>]
    ELSE [st |-> s,
          out |-> <<[type |-> "make-move", from |-> sourceSquare,
                     to |-> targetSquare]>>]

\* mutant: the move is also applied locally (the turn passes to the other side)
handleMove_Optimistic(s, sourceSquare, targetSquare) ==
    IF ~handleMoveGuard(s)
    THEN [st |-> s, out |-> <<>>]
    ELSE [st |-> [s EXCEPT !.error = "",
                           !.gameState.currentTurn =
                               IF s.playerColor = "white" THEN "black" ELSE "white"],
          out |-> <<[type |-> "make-move", from |-> sourceSquare,
                     to |-> targetSquare]>>]

\* handleMove({sourceSquare, targetSquare})
handleMove(s, sourceSquare, targetSquare) ==
    IF ~handleMoveGuard(s)
    THEN [st |-> s, out |-> <<>>]
    ELSE [st |-> [s EXCEPT !.error = ""],
          out |-> <<[type |-> "make-move", from |-> sourceSquare,
                     to |-> targetSquare]>>]

\* handleNewGame()
handleNewGame(s) ==
    [st |-> s,
     out |-> IF s.socket # "null" THEN <<[type |-> "new-game"]>> ELSE <<>>]

\* isMyTurn
isMyTurn(s) ==
    s.playerColor = s.gameState.currentTurn /\ s.gameState.gameStarted /\ ~s.gameOver

\* highlightLegalMoves(square)
highlightLegalMoves(s, square) ==
    IF Moves(s.chess, square) = {}
    THEN s
    ELSE [s EXCEPT !.highlightedSquares = Moves(s.chess, square)]

\* the condition under which handleSquareClick looks at the click at all
handleSquareClickGuard(s) ==
    ~(s.playerColor = "null" \/ s.gameState.currentTurn # s.playerColor \/ s.gameOver)

\* handleSquareClick(square)
handleSquareClick(s, square) ==
    IF ~handleSquareClickGuard(s)
    THEN [st |-> s, out |-> <<>>]
    ELSE IF s.selectedSquare # "null"
    THEN IF square \in Moves(s.chess, s.selectedSquare)
         THEN LET r == handleMove(s, s.selectedSquare, square)
              IN  [st |-> [r.st EXCEPT !.selectedSquare = "null",
                                       !.highlightedSquares = {}],
                   out |-> r.out]
         ELSE IF PieceColor(s.chess, square) = ColorChar(s.playerColor)
              THEN [st |-> highlightLegalMoves(
                               [s EXCEPT !.selectedSquare = square], square),
                    out |-> <<>>]
              ELSE [st |-> [s EXCEPT !.selectedSquare = "null",
                                     !.highlightedSquares = {}],
                    out |-> <<>>]
    ELSE IF PieceColor(s.chess, square) = ColorChar(s.playerColor)
         THEN [st |-> highlightLegalMoves(
                          [s EXCEPT !.selectedSquare = square], square),
               out |-> <<>>]
         ELSE [st |-> s, out |-> <<>>]

\* allowDrag({piece}): piece is the colour letter of the dragged piece
allowDrag(s, piece) ==
    IF s.playerColor = "null" \/ s.gameOver
    THEN FALSE
    ELSE /\ s.gameState.gameStarted
         /\ s.gameState.currentTurn = s.playerColor
         /\ piece = ColorChar(s.playerColor)

----------------------------------------------------------------------------
(* Lifecycle phase of the specification, read off the component's state *)

Phase(s, pending) ==
    IF ~s.isConnected THEN "DISCONNECTED"
    ELSE IF s.playerColor = "null" THEN "SEAT_PENDING"
    ELSE IF s.gameOver THEN "OVER"
    ELSE IF ~s.gameState.gameStarted THEN "WAITING_FOR_OPPONENT"
    ELSE IF pending > 0 THEN "AWAITING_RESULT"
    ELSE "ACTIVE"

phase == Phase(St, outstanding)

----------------------------------------------------------------------------
(* Initial state: the values given to useState *)

Init ==
    /\ socket = "null"
    /\ isConnected = FALSE
    /\ playerColor = "null"
    /\ effectColor = "null"
    /\ chess = InitialFen
    /\ fen = InitialFen
    /\ gameState = [currentTurn |-> "white", playerCount |-> 0,
                    gameStarted |-> FALSE]
    /\ gameStatus = "Waiting for players..."
    /\ error = ""
    /\ gameOver = FALSE
    /\ selectedSquare = "null"
    /\ highlightedSquares = {}
    /\ emitted = <<>>
    /\ outstanding = 0

----------------------------------------------------------------------------
(* Actions *)

\* React runs the effect of a committed render before the next event is handled
Settled == effectColor = playerColor

\* an inbound event handled by a handler that emits nothing
Inbound(s) ==
    /\ Settled
    /\ SetSt(s)
    /\ emitted' = <<>>
    /\ UNCHANGED effectColor

\* first run of the socket effect: io(url), setSocket(newSocket)
Mount ==
    /\ socket = "null"
    /\ SetSt([St EXCEPT !.socket = "set"])
    /\ effectColor' = playerColor
    /\ emitted' = <<>>
    /\ UNCHANGED outstanding

\* cleanup of the socket effect, newSocket.close(): the 'disconnect' handler
\* of the closed socket runs if it was connected
socketEffectCleanup(s) == IF s.isConnected THEN onDisconnect(s) ELSE s

\* the socket effect runs again after playerColor changed: the cleanup closes
\* the old socket and a new socket is created, not yet connected
EffectRerun ==
    /\ socket = "set"
    /\ effectColor # playerColor
    /\ SetSt(socketEffectCleanup(St))
    /\ effectColor' = playerColor
    /\ outstanding' = IF isConnected THEN 0 ELSE outstanding
    /\ emitted' = <<>>

Connect ==
    /\ socket = "set"
    /\ Settled
    /\ ~isConnected
    /\ SetSt(onConnect(St).st)
    /\ emitted' = onConnect(St).out
    /\ UNCHANGED <<effectColor, outstanding>>

Disconnect ==
    /\ isConnected
    /\ Inbound(onDisconnect(St))
    /\ outstanding' = 0

PlayerAssigned(data) ==
    /\ isConnected
    /\ Inbound(onPlayerAssigned(St, data))
    /\ UNCHANGED outstanding

GameStart(data) ==
    /\ isConnected
    /\ Inbound(onGameStart(St, data))
    /\ UNCHANGED outstanding

PlayerCountUpdate(data) ==
    /\ isConnected
    /\ Inbound(onPlayerCountUpdate(St, data, effectColor))
    /\ UNCHANGED outstanding

MoveMade(data) ==
    /\ isConnected
    /\ Inbound(onMoveMade(St, data))
    /\ outstanding' = 0

GameOver(data) ==
    /\ isConnected
    /\ Inbound(onGameOver(St, data))
    /\ UNCHANGED outstanding

GameFull ==
    /\ isConnected
    /\ Inbound(onGameFull(St))
    /\ UNCHANGED outstanding

MoveError(errorMsg) ==
    /\ isConnected
    /\ Inbound(onMoveError(St, errorMsg))
    /\ outstanding' = 0

PlayerDisconnected(data) ==
    /\ isConnected
    /\ Inbound(onPlayerDisconnected(St, data))
    /\ UNCHANGED outstanding

GameReset ==
    /\ isConnected
    /\ Inbound(onGameReset(St))
    /\ UNCHANGED outstanding

\* a user handler: its new state, what it emitted, and the emitted moves counted
User(r) ==
    /\ Settled
    /\ outstanding + Len(r.out) <= MaxOutstanding
    /\ SetSt(r.st)
    /\ emitted' = r.out
    /\ outstanding' = outstanding
           + Cardinality({i \in 1..Len(r.out) : r.out[i].type = "make-move"})
    /\ UNCHANGED effectColor

\* onDrop={handleMove}: the widget lets a piece be dragged only where allowDrag
OnDrop(sourceSquare, targetSquare) ==
    /\ socket = "set"
    /\ PieceColor(fen, sourceSquare) # "none"
    /\ allowDrag(St, PieceColor(fen, sourceSquare))
    /\ User(handleMove(St, sourceSquare, targetSquare))

\* onSquareClick={handleSquareClick}
OnSquareClick(square) ==
    /\ socket = "set"
    /\ User(handleSquareClick(St, square))

\* onClick={handleNewGame}
OnNewGame ==
    /\ socket = "set"
    /\ Settled
    /\ SetSt(handleNewGame(St).st)
    /\ emitted' = handleNewGame(St).out
    /\ UNCHANGED <<effectColor, outstanding>>

Next ==
    \/ Mount
    \/ EffectRerun
    \/ Connect
    \/ Disconnect
    \/ \E data \in AssignDatas : PlayerAssigned(data)
    \/ \E data \in StartDatas : GameStart(data)
    \/ \E data \in CountDatas : PlayerCountUpdate(data)
    \/ \E data \in MoveDatas : MoveMade(data)
    \/ \E data \in OverDatas : GameOver(data)
    \/ GameFull
    \/ \E errorMsg \in MoveErrors : MoveError(errorMsg)
    \/ \E data \in CountDatas : PlayerDisconnected(data)
    \/ GameReset
    \/ \E sourceSquare, targetSquare \in Squares : OnDrop(sourceSquare, targetSquare)
    \/ \E square \in Squares : OnSquareClick(square)
    \/ OnNewGame

Spec == Init /\ [][Next]_vars

----------------------------------------------------------------------------
(* Vocabulary of the claims *)

MakeMove(from, to) == [type |-> "make-move", from |-> from, to |-> to]

\* the last step emitted a make-move
EmittedMakeMove == \E i \in 1..Len(emitted) : emitted[i].type = "make-move"

\* a seat is assigned and it is that seat's turn
MyTurn == playerColor # "null" /\ playerColor = gameState.currentTurn

TerminalStatuses ==
    {"Checkmate! Black wins!", "Checkmate! White wins!", "Game ended in a draw",
     "White wins by resignation!", "Black wins by resignation!"}

----------------------------------------------------------------------------
(* C1 *)

\* C1: a make-move is emitted only with the channel connected, a seat
\* assigned, the session started and not over, and the local seat to move.
\* (A user handler changes none of these fields, so they are read in the
\* state the emitting step leaves.)
C1_SubmitOnlyWhenActiveInTurn ==
    EmittedMakeMove =>
        /\ isConnected
        /\ playerColor # "null"
        /\ gameState.gameStarted
        /\ ~gameOver
        /\ playerColor = gameState.currentTurn

----------------------------------------------------------------------------
(* C2 *)

\* C2: at most one make-move is outstanding: none is emitted while an earlier
\* one is unresolved by move-made, move-error or a disconnect.
C2_SingleFlight == outstanding <= 1

----------------------------------------------------------------------------
(* C3 *)

\* C3: no user intent changes the position (fen, chess) or gameState (so not
\* the side to move), whatever the state and the squares: not a drop, not a
\* click; and a new-game intent changes no state at all and emits new-game.
C3_UserIntentsKeepMirror ==
    /\ \A a, b \in Squares :
           LET r == handleMove(St, a, b).st
           IN  r.fen = fen /\ r.chess = chess /\ r.gameState = gameState
    /\ \A sq \in Squares :
           LET r == handleSquareClick(St, sq).st
           IN  r.fen = fen /\ r.chess = chess /\ r.gameState = gameState
    /\ handleNewGame(St).st = St
    /\ socket = "set" => handleNewGame(St).out = <<[type |-> "new-game"]>>

\* a move intent has been submitted from a position other than the initial
\* one, and position and turn are still the ones the coordinator sent
C3_Witness ==
    /\ emitted = <<MakeMove("a4", "a8")>>
    /\ fen = [board |-> "mid", turn |-> "white"]
    /\ gameState.currentTurn = "white"

----------------------------------------------------------------------------
(* C4 *)

\* C4: from every reachable connected state and for every move-made payload,
\* receiving the payload twice leaves the component state (position, side to
\* move, over flag, status, seat, error) as receiving it once does.
C4_MoveMadeIdempotent ==
    isConnected =>
        \A d \in MoveDatas :
            onMoveMade(onMoveMade(St, d), d) = onMoveMade(St, d)

\* a move-made (black to move, in check) has been received on a game that a
\* reset had left at white's turn
C4_Witness ==
    /\ isConnected
    /\ gameStatus = "Black is in check!"
    /\ gameState.currentTurn = "black"
    /\ fen = [board |-> "mid", turn |-> "black"]
    /\ gameState.playerCount = 0

----------------------------------------------------------------------------
(* C5 *)

\* the component state after game-reset immediately followed by game-start
ResetThenStart(s, d) == onGameStart(onGameReset(s), d)

\* what C5 promises of that state: the payload's position, and a seat
\* assigned, the session started and not over on a connected channel
ResetThenStartOk(s, d) ==
    LET s2 == ResetThenStart(s, d)
    IN  /\ s2.fen = d.fen
        /\ s2.chess = d.fen
        /\ Phase(s2, outstanding) \in {"ACTIVE", "AWAITING_RESULT"}

\* C5 as stated: from every connected state, whatever the phase, game-reset
\* followed by game-start{P0} yields position P0 and phase ACTIVE.
C5_ResetThenStartAnyPhase ==
    isConnected => \A d \in StartDatas : ResetThenStartOk(St, d)

\* C5 amended: from every connected state in which a seat is assigned,
\* game-reset followed by game-start{P0} yields position P0 and phase ACTIVE.
C5_ResetThenStartSeated ==
    (isConnected /\ playerColor # "null") =>
        \A d \in StartDatas : ResetThenStartOk(St, d)

\* a seated client has received game-reset (seat count 0, white to move) and
\* then game-start with a position of the other board
C5_Witness ==
    /\ isConnected
    /\ playerColor = "black"
    /\ gameStatus = "Game started! Good luck!"
    /\ gameState = [currentTurn |-> "white", playerCount |-> 0,
                    gameStarted |-> TRUE]
    /\ fen = [board |-> "mid", turn |-> "black"]
    /\ ~gameOver

----------------------------------------------------------------------------
(* C6 *)

\* C6: when a connected client that holds no seat receives player-assigned,
\* the seat is the payload's colour, position and side to move are the
\* payload's, and the phase is ACTIVE if the payload says started and
\* WAITING_FOR_OPPONENT if not.
C6_SeatAssignment ==
    (isConnected /\ playerColor = "null") =>
        \A d \in AssignDatas :
            LET s2 == onPlayerAssigned(St, d)
            IN  /\ s2.playerColor = d.color
                /\ s2.fen = d.gameState.fen
                /\ s2.chess = d.gameState.fen
                /\ s2.gameState.currentTurn = d.gameState.currentTurn
                /\ Phase(s2, outstanding) =
                       IF d.gameState.gameStarted
                       THEN "ACTIVE" ELSE "WAITING_FOR_OPPONENT"

----------------------------------------------------------------------------
(* C7 *)

\* C7: in phase ACTIVE with the local seat to move, a move intent {from, to}
\* (a drop, or a click on a destination of the selected square) clears the
\* error, emits exactly one make-move with the same squares and changes
\* nothing else; with that move outstanding the phase is AWAITING_RESULT.
C7_SubmitInTurn ==
    (phase = "ACTIVE" /\ MyTurn) =>
        /\ \A a, b \in Squares :
               LET r == handleMove(St, a, b)
               IN  /\ r.st = [St EXCEPT !.error = ""]
                   /\ r.out = <<MakeMove(a, b)>>
                   /\ Phase(r.st, outstanding + Len(r.out)) = "AWAITING_RESULT"
        /\ \A sq \in Squares :
               (selectedSquare # "null" /\ sq \in Moves(chess, selectedSquare)) =>
                   LET r == handleSquareClick(St, sq)
                   IN  /\ r.st.error = ""
                       /\ r.out = <<MakeMove(selectedSquare, sq)>>

\* a move a1-a4 has just been submitted in turn: one make-move outstanding
C7_Witness ==
    /\ phase = "AWAITING_RESULT"
    /\ MyTurn
    /\ emitted = <<MakeMove("a1", "a4")>>
    /\ outstanding = 1
    /\ error = ""

----------------------------------------------------------------------------
(* C8 *)

\* the status line C8 expects for a move-made that does not end the game
TurnStatus(d) ==
    IF d.inCheck
    THEN (IF d.currentTurn = "white" THEN "White is in check!" ELSE "Black is in check!")
    ELSE (IF d.currentTurn = "white" THEN "White's turn" ELSE "Black's turn")

\* C8: a move-made with gameOver = false arriving in phase ACTIVE or
\* AWAITING_RESULT (own move acknowledged, or the other seat's move) makes
\* position and side to move the payload's, leaves the phase ACTIVE, and the
\* status names the payload's side to move: in check, or to move.
C8_MoveAppliedNotOver ==
    (phase \in {"ACTIVE", "AWAITING_RESULT"}) =>
        \A d \in MoveDatas :
            ~d.gameOver =>
                LET s2 == onMoveMade(St, d)
                IN  /\ s2.fen = d.fen
                    /\ s2.chess = d.fen
                    /\ s2.gameState.currentTurn = d.currentTurn
                    /\ Phase(s2, 0) = "ACTIVE"
                    /\ s2.gameStatus = TurnStatus(d)

\* white's own move has been applied: black is to move, in check, on the
\* other board, and nothing is outstanding
C8_Witness ==
    /\ phase = "ACTIVE"
    /\ playerColor = "white"
    /\ gameStatus = "Black is in check!"
    /\ gameState.currentTurn = "black"
    /\ fen = [board |-> "mid", turn |-> "black"]
    /\ emitted = <<>>

----------------------------------------------------------------------------
(* C9 *)

\* C9: a move-made with gameOver = true arriving in phase ACTIVE makes the
\* phase OVER and records the result: on checkmate the side opposite to the
\* payload's side to move wins, on a draw the result is a draw; and in phase
\* OVER the recorded result (the status line, the only place the component
\* keeps it) always describes a terminal outcome.
C9_TerminalMove ==
    /\ (phase \in {"ACTIVE", "AWAITING_RESULT"}) =>
           \A d \in MoveDatas :
               d.gameOver =>
                   LET s2 == onMoveMade(St, d)
                   IN  /\ Phase(s2, 0) = "OVER"
                       /\ d.isCheckmate =>
                              s2.gameStatus = IF d.currentTurn = "black"
                                              THEN "Checkmate! White wins!"
                                              ELSE "Checkmate! Black wins!"
                       /\ d.isDraw => s2.gameStatus = "Game ended in a draw"
    /\ phase = "OVER" => gameStatus \in TerminalStatuses

----------------------------------------------------------------------------
(* C10 *)

\* C10: player-disconnected{playerCount: 1, gameStarted: false} arriving in
\* phase ACTIVE or OVER leaves the phase WAITING_FOR_OPPONENT, the over flag
\* cleared and the seat as it was.
C10_PeerDisconnected ==
    (phase \in {"ACTIVE", "AWAITING_RESULT", "OVER"}) =>
        \A d \in CountDatas :
            (d.playerCount = 1 /\ ~d.gameStarted) =>
                LET s2 == onPlayerDisconnected(St, d)
                IN  /\ Phase(s2, outstanding) = "WAITING_FOR_OPPONENT"
                    /\ ~s2.gameOver
                    /\ s2.playerColor = playerColor

\* the opponent has left a game that was under way on the other board
C10_Witness ==
    /\ phase = "WAITING_FOR_OPPONENT"
    /\ playerColor = "black"
    /\ gameStatus = "Opponent disconnected. Waiting for new player..."
    /\ gameState.playerCount = 1
    /\ fen.board = "mid"

----------------------------------------------------------------------------
(* C11 *)

Join == [type |-> "join-game"]

HasJoin(out) == \E i \in 1..Len(out) : out[i] = Join

\* C11: every connect event (the first and every reconnect) emits exactly one
\* join-game, and nothing else emits one: no user handler does, and a state
\* whose last step emitted a join is a state a connect has just left
\* (connected, error cleared, that one message emitted).
C11_JoinOncePerConnect ==
    /\ (socket = "set" /\ ~isConnected) => onConnect(St).out = <<Join>>
    /\ \A a, b \in Squares : ~HasJoin(handleMove(St, a, b).out)
    /\ \A sq \in Squares : ~HasJoin(handleSquareClick(St, sq).out)
    /\ ~HasJoin(handleNewGame(St).out)
    /\ HasJoin(emitted) => (emitted = <<Join>> /\ isConnected /\ error = "")

\* a reconnect: the join has just been emitted by a client that was seated on
\* an earlier connection and still shows the loss of it
C11_Witness ==
    /\ emitted = <<Join>>
    /\ isConnected
    /\ playerColor = "black"
    /\ gameStatus = "Disconnected from server"
    /\ gameState.gameStarted

----------------------------------------------------------------------------
(* C12 *)

HasMakeMove(out) == \E i \in 1..Len(out) : out[i].type = "make-move"

\* C12: while the game is over no user move intent (drop or click) emits a
\* make-move, and the over flag stays set through every inbound event other
\* than game-reset and player-disconnected; a state whose last step emitted
\* a make-move is not over.
C12_NoSubmitWhileOver ==
    /\ gameOver =>
        /\ \A a, b \in Squares : ~HasMakeMove(handleMove(St, a, b).out)
        /\ \A sq \in Squares : ~HasMakeMove(handleSquareClick(St, sq).out)
        /\ \A sq \in Squares :
               /\ handleMove(St, sq, sq).st.gameOver
               /\ handleSquareClick(St, sq).st.gameOver
        /\ handleNewGame(St).st.gameOver
        /\ onConnect(St).st.gameOver
        /\ onDisconnect(St).gameOver
        /\ \A d \in AssignDatas : onPlayerAssigned(St, d).gameOver
        /\ \A d \in StartDatas : onGameStart(St, d).gameOver
        /\ \A d \in CountDatas : onPlayerCountUpdate(St, d, effectColor).gameOver
        /\ \A d \in MoveDatas : onMoveMade(St, d).gameOver
        /\ \A d \in OverDatas : onGameOver(St, d).gameOver
        /\ onGameFull(St).gameOver
        /\ \A msg \in MoveErrors : onMoveError(St, msg).gameOver
    /\ HasMakeMove(emitted) => ~gameOver

\* phase OVER with everything else in favour of a move: connected, started,
\* the local seat's turn, its piece selected and the destination highlighted
C12_Witness ==
    /\ phase = "OVER"
    /\ gameState.gameStarted
    /\ MyTurn
    /\ selectedSquare # "null"
    /\ highlightedSquares # {}
    /\ highlightedSquares \subseteq Moves(chess, selectedSquare)

----------------------------------------------------------------------------
(* C13 *)

\* C13: a move-made that arrives while the channel is connected and no seat
\* has been assigned leaves position, side to move, over flag and status as
\* they were.
C13_MoveMadeIgnoredUnseated ==
    (isConnected /\ playerColor = "null") =>
        \A d \in MoveDatas :
            LET s2 == onMoveMade(St, d)
            IN  /\ s2.chess = chess
                /\ s2.fen = fen
                /\ s2.gameState = gameState
                /\ s2.gameOver = gameOver
                /\ s2.gameStatus = gameStatus

----------------------------------------------------------------------------
(* C14 *)

\* C14 as stated: wherever a move-error can answer a submitted move (the
\* channel is connected and a make-move is outstanding) it sets the error,
\* changes nothing else, and leaves the client in phase ACTIVE.
C14_MoveErrorAnyPhase ==
    (isConnected /\ outstanding > 0) =>
        \A msg \in MoveErrors :
            LET s2 == onMoveError(St, msg)
            IN  /\ s2 = [St EXCEPT !.error = msg]
                /\ Phase(s2, 0) = "ACTIVE"

\* C14 amended: a move-error that arrives in phase AWAITING_RESULT sets the
\* error to its message and changes nothing else; the phase afterwards is
\* ACTIVE, and when the turn is the local seat's a move is submitted again.
C14_MoveErrorAwaiting ==
    (phase = "AWAITING_RESULT") =>
        \A msg \in MoveErrors :
            LET s2 == onMoveError(St, msg)
            IN  /\ s2.error = msg
                /\ s2 = [St EXCEPT !.error = msg]
                /\ Phase(s2, 0) = "ACTIVE"
                /\ (s2.gameState.currentTurn = s2.playerColor) =>
                       \A a, b \in Squares :
                           handleMove(s2, a, b).out = <<MakeMove(a, b)>>

\* the rejection has been surfaced, nothing is outstanding, and the rejected
\* side is to move again on the board it submitted from
C14_Witness ==
    /\ error = "Invalid move"
    /\ phase = "ACTIVE"
    /\ outstanding = 0
    /\ MyTurn
    /\ playerColor = "black"
    /\ fen = [board |-> "mid", turn |-> "black"]

----------------------------------------------------------------------------
(* C15 *)

\* C15: a seated client that loses the channel and reconnects has no seat
\* after the reconnect, and handleMove submits nothing for it.
C15_SeatDroppedOnReconnect ==
    (Settled /\ isConnected /\ playerColor # "null") =>
        LET s2 == onConnect(onDisconnect(St)).st
        IN  /\ s2.playerColor = "null"
            /\ \A a, b \in Squares : handleMove(s2, a, b).out = <<>>

----------------------------------------------------------------------------
(* C16 *)

\* the squares that hold a piece of the local seat
OwnPieces == {sq \in Squares : /\ playerColor # "null"
                               /\ PieceColor(chess, sq) = ColorChar(playerColor)}

\* C16: for every own piece, the drag is allowed iff a click selects the piece
\* iff handleMove submits a move of it.
C16_SameEligibility ==
    \A sq \in OwnPieces :
        LET drag   == allowDrag(St, PieceColor(chess, sq))
            click  == /\ handleSquareClickGuard(St)
                      /\ handleSquareClick(St, sq).st.selectedSquare = sq
            submit == \A t \in Squares : handleMove(St, sq, t).out = <<MakeMove(sq, t)>>
        IN  (drag <=> click) /\ (click <=> submit)

----------------------------------------------------------------------------
(* C17 *)

NoSelection(s) == s.selectedSquare = "null" /\ s.highlightedSquares = {}

\* C17: right after player-assigned, game-start, move-made,
\* player-disconnected, game-reset and disconnect nothing is selected and
\* nothing is highlighted.
C17_SelectionCleared ==
    isConnected =>
        /\ NoSelection(onDisconnect(St))
        /\ \A d \in AssignDatas : NoSelection(onPlayerAssigned(St, d))
        /\ \A d \in StartDatas : NoSelection(onGameStart(St, d))
        /\ \A d \in MoveDatas : NoSelection(onMoveMade(St, d))
        /\ \A d \in CountDatas : NoSelection(onPlayerDisconnected(St, d))
        /\ NoSelection(onGameReset(St))

----------------------------------------------------------------------------
(* C18 *)

\* C18: with a square selected and the local seat allowed to move, a click on
\* any highlighted square emits one make-move from the selected square to the
\* clicked one and clears the selection and the highlights.
C18_HighlightedClickMoves ==
    (selectedSquare # "null" /\ handleMoveGuard(St) /\ handleSquareClickGuard(St)) =>
        \A sq \in highlightedSquares :
            LET r == handleSquareClick(St, sq)
            IN  /\ r.out = <<MakeMove(selectedSquare, sq)>>
                /\ NoSelection(r.st)

----------------------------------------------------------------------------
(* C19 *)

\* C19: whenever a seat is assigned, gameState.currentTurn is the side to
\* move of the position held in fen.
C19_TurnMatchesPosition ==
    playerColor # "null" => gameState.currentTurn = fen.turn

----------------------------------------------------------------------------
(* C20 *)

\* C20: a seat assignment does not cost the client its channel: whenever a
\* player-assigned has changed the seat and the socket effect is due to run
\* again, the cleanup of the effect leaves the connection and the status
\* as they are (no close, no disconnect).
C20_AssignmentKeepsChannel ==
    (socket = "set" /\ ~Settled) =>
        /\ socketEffectCleanup(St).isConnected = isConnected
        /\ socketEffectCleanup(St).gameStatus = gameStatus

====
